---- MODULE Spec2Model ----
(***************************************************************************)
(* Agent form and processing-status controllers of zapient.                *)
(*                                                                         *)
(* Manage page: the controller of src/static/js/manage.js, lines 7-831     *)
(* (module state, change detection, status polling, file staging, submit). *)
(* Create page: the controller of src/static/js/config.js.                 *)
(*                                                                         *)
(* The browser is single threaded: every action below is one event-loop    *)
(* task (a user event, a timer tick, or the promise chain run when a       *)
(* response arrives).  The backend is outside the repository; it is        *)
(* modelled at its REST interface as an agent record whose files move      *)
(* pending -> processing -> success | error.  Requests reach the backend   *)
(* in the order they are dispatched (the response is computed from the     *)
(* backend state of that moment); responses are delivered in any order.    *)
(***************************************************************************)
EXTENDS Naturals, Sequences, FiniteSets, TLC

VARIABLES
    \* ---- manage.js module state (lines 19-33) and the DOM it drives
    uploadedFiles,            \* manage.js:19
    originalAgentName,        \* manage.js:22
    originalAgentPersona,     \* manage.js:23
    originalFiles,            \* manage.js:24
    hasChanges,               \* manage.js:27
    statusInterval,           \* manage.js:30   0 = null, 1 = a live interval
    filesCurrentlyProcessing, \* manage.js:31
    justFinishedProcessing,   \* manage.js:33
    agentNameInput,           \* value of #agentName
    agentPersonaInput,        \* value of #agentPersona
    updateButton,             \* [text, disabled] of .update-btn
    fileList,                 \* rows of #fileList: <<[id, name, status]>>
    page,                     \* "open" | "left" (window.location.href assigned);
                              \* "none" when the create page is shown
    \* ---- config.js module state (lines 18-30) and the DOM it drives
    cfgUploadedFiles,         \* config.js:18  uploadedFiles
    currentAgentName,         \* config.js:27
    processingStatusInterval, \* config.js:28  0 = null, 1 = the handle of an interval
    processingComplete,       \* config.js:29
    liveIntervals,            \* intervals set and not cleared
    cfgAgentNameInput,        \* value of #agentName
    cfgAgentPersonaInput,     \* value of #agentPersona
    submitButton,             \* [text, disabled] of .primary-btn
    cfgFileList,              \* rows of #fileList: <<[id, name, status]>>
    cfgPage,                  \* "open" | "left"; "none" when the manage page is shown
    templateTimer,            \* agent name of the template's pending timeout, or Null
    \* ---- network and backend
    net,                      \* responses on their way back to the page
    srvName, srvPersona, srvFiles,
    \* ---- what the last task did (observation only)
    lastOp,                   \* the handler that ran: [op, files (the batch added, or
                              \* the file of the row whose remove icon was clicked)]
    alerts,                   \* alert() calls of that task, in order
    sentNow,                  \* requests dispatched by that task
    refetches,                \* agent re-fetches issued since the monitor started
    \* ---- environment
    budget,                   \* events the environment may still produce:
                              \* [edits, adds, removes, submits, agentDeletes, ticks]
    faults                    \* requests the network may still lose

mvars == <<uploadedFiles, originalAgentName, originalAgentPersona, originalFiles,
           hasChanges, statusInterval, filesCurrentlyProcessing,
           justFinishedProcessing, agentNameInput, agentPersonaInput,
           updateButton, fileList, page>>
cvars == <<cfgUploadedFiles, currentAgentName, processingStatusInterval,
           processingComplete, liveIntervals, cfgAgentNameInput, cfgAgentPersonaInput,
           submitButton, cfgFileList, cfgPage, templateTimer>>
svars == <<srvName, srvPersona, srvFiles>>
ovars == <<lastOp, alerts, sentNow, refetches>>
evars == <<budget, faults>>
vars == <<mvars, cvars, net, svars, ovars, evars>>

-----------------------------------------------------------------------------
(* Bounds of the model *)

\* Spec: user events of one page visit, by kind
MaxEdits == 2
MaxAdds == 1
MaxSubmits == 2
\* Spec: ticks of the polling interval in one page visit
MaxTicks == 1
\* Spec: requests lost by the network in one page visit
MaxFaults == 1
\* SpecPoll: ticks and lost requests
PollTicks == 4
PollFaults == 1
\* SpecCreate: user events by kind, ticks and lost requests
CreateAdds == 2
CreateRemoves == 1
CreateSubmits == 2
CreateTicks == 2
CreateFaults == 1
\* SpecTemplate: user events by kind, ticks and lost requests
TemplateAdds == 1
TemplateSubmits == 2
TemplateTicks == 2
TemplateFaults == 1
\* SpecCreate: intervals live at once
MaxIntervals == 2
\* SpecStaging: additions, removals, ticks and lost requests
StagingAdds == 2
StagingRemoves == 2
StagingTicks == 2
StagingFaults == 1
\* SpecEdit: user events by kind, ticks and lost requests
EditEdits == 2
EditAdds == 1
EditRemoves == 1
EditSubmits == 1
EditTicks == 1
EditFaults == 1
\* status responses in flight at once
MaxStatusInFlight == 2
\* file DELETE responses in flight at once
MaxDeleteInFlight == 1
\* files of one selection / drop
MaxBatch == 2
\* rows of #fileList at once
MaxRows == 2
\* saturation of the re-fetch counter
MaxCount == 2

-----------------------------------------------------------------------------
(* Values *)

Null == "null"

\* the agent of the page URL and the name it can be renamed to
AgentNames == {"A", "B"}
UrlAgentName == "A"
\* an agent created earlier, for which the create page can be rendered
\* (agent_name of the template); the backend holds it with all files processed
TemplateAgentName == "T"
\* values the persona textarea can take
Personas == {"", "P"}

\* a string as the sequence of its characters
Chars(s) ==
    CASE s = "a.pdf" -> <<"a", ".", "p", "d", "f">>
      [] s = "b.PDF" -> <<"b", ".", "P", "D", "F">>
      [] s = "c.txt" -> <<"c", ".", "t", "x", "t">>
      [] s = ".pdf"  -> <<".", "p", "d", "f">>
      [] s = "application/pdf" ->
            <<"a", "p", "p", "l", "i", "c", "a", "t", "i", "o", "n", "/", "p", "d", "f">>
      [] OTHER -> <<>>

\* String.prototype.toLowerCase on a character
LowerChar(c) ==
    CASE c = "P" -> "p" [] c = "D" -> "d" [] c = "F" -> "f" [] OTHER -> c

\* String.prototype.toLowerCase
ToLowerCase(cs) == [i \in 1..Len(cs) |-> LowerChar(cs[i])]

\* String.prototype.endsWith
EndsWith(cs, suffix) ==
    /\ Len(suffix) <= Len(cs)
    /\ SubSeq(cs, Len(cs) - Len(suffix) + 1, Len(cs)) = suffix

\* String.prototype.startsWith
StartsWith(cs, prefix) ==
    /\ Len(prefix) <= Len(cs)
    /\ SubSeq(cs, 1, Len(prefix)) = prefix

\* manage.js:36-39, config.js:21-24
allowedFileTypes == <<"application/pdf", ".pdf">>

\* File objects the user can select or drop
UserFile(n, t) == [name |-> n, type |-> t]
Candidates == { UserFile("a.pdf", "application/pdf"),
                UserFile("b.PDF", ""),
                UserFile("c.txt", "text/plain") }
FileNames == {f.name : f \in Candidates}
\* the order in which the backend lists an agent's files
NameOrder == <<"a.pdf", "b.PDF", "c.txt">>

Batches == UNION {[1..n -> Candidates] : n \in 1..MaxBatch}

\* JavaScript's  v || d  on a string or a missing value
OrDefault(v, d) == IF v = Null \/ v = "" THEN d ELSE v

Min(a, b) == IF a < b THEN a ELSE b

-----------------------------------------------------------------------------
(* Pure helpers of manage.js *)

\* Array.prototype.includes on allowedFileTypes
AllowedIncludes(t) == \E i \in 1..Len(allowedFileTypes) : allowedFileTypes[i] = t

\* variant of isFileTypeAllowed: the extension is not looked at
isFileTypeAllowedByMime(file) == AllowedIncludes(file.type)

isFileTypeAllowed(file) ==
    \/ AllowedIncludes(file.type)
    \/ \E i \in 1..Len(allowedFileTypes) :
          /\ StartsWith(Chars(allowedFileTypes[i]), <<".">>)
          /\ EndsWith(ToLowerCase(Chars(file.name)), Chars(allowedFileTypes[i]))

\* the staging entry of a File object the user added (manage.js:502-504)
NewEntry(file) ==
    [name |-> file.name, type |-> file.type, isFile |-> TRUE,
     isExisting |-> FALSE, processed |-> FALSE]

\* variant of LoadedEntry: the files of the record are not tagged existing
LoadedEntryAsNew(f) ==
    [name |-> f.name, type |-> OrDefault(Null, "application/pdf"), isFile |-> FALSE,
     isExisting |-> FALSE, processed |-> (f.status = "success")]

\* the staging entry built from a file of the loaded agent record
LoadedEntry(f) ==
    [name |-> f.name, type |-> OrDefault(Null, "application/pdf"), isFile |-> FALSE,
     isExisting |-> TRUE, processed |-> (f.status = "success")]

\* the map applied to uploadedFiles at the completion edge
MarkProcessed(file) ==
    IF file.isFile
    THEN [name |-> file.name, type |-> OrDefault(file.type, "application/pdf"),
          isFile |-> FALSE, isExisting |-> TRUE, processed |-> TRUE]
    ELSE [file EXCEPT !.processed = TRUE]

\* variant of isDuplicate: only the files of the loaded record count
isDuplicateOfExisting(files, file) ==
    \E i \in 1..Len(files) : files[i].name = file.name /\ files[i].isExisting

\* the duplicate test of handleFiles (manage.js:497-499)
isDuplicate(files, file) == \E i \in 1..Len(files) : files[i].name = file.name

removeFile(files, fileName) == SelectSeq(files, LAMBDA f : f.name # fileName)

\* document.querySelector: index of the first row with that data-filename, 0 if none
QueryRow(rows, filename) ==
    IF \E i \in 1..Len(rows) : rows[i].name = filename
    THEN CHOOSE i \in 1..Len(rows) :
            /\ rows[i].name = filename
            /\ \A j \in 1..(i - 1) : rows[j].name # filename
    ELSE 0

\* variant: a status for a name without a row creates the row
updateFileStatusOrAdd(rows, filename, status) ==
    LET i == QueryRow(rows, filename)
    IN  IF i = 0
        THEN Append(rows, [id |-> Len(rows) + 1, name |-> filename, status |-> status])
        ELSE [rows EXCEPT ![i].status = status]

updateFileStatus(rows, filename, status) ==
    LET i == QueryRow(rows, filename)
    IN  IF i = 0 THEN rows ELSE [rows EXCEPT ![i].status = status]

\* updateFileStatus applied to every entry of a response, in order
RECURSIVE UpdateAll(_, _)
UpdateAll(rows, snap) ==
    IF snap = <<>> THEN rows
    ELSE UpdateAll(updateFileStatus(rows, Head(snap).name, Head(snap).status), Tail(snap))

\* ids of the rows attached to #fileList or captured by a DELETE in flight
UsedIds(rows, msgs) == {rows[i].id : i \in 1..Len(rows)} \cup {m.row : m \in msgs}

FreshId(rows, msgs) ==
    CHOOSE i \in 1..(Len(rows) + Cardinality(msgs) + 1) :
        /\ i \notin UsedIds(rows, msgs)
        /\ \A j \in 1..(i - 1) : j \in UsedIds(rows, msgs)

addFileToUI(rows, msgs, fileName, status) ==
    Append(rows, [id |-> FreshId(rows, msgs), name |-> fileName, status |-> status])

RemoveRow(rows, id) == SelectSeq(rows, LAMBDA r : r.id # id)

\* variant of filesChanged: the lengths are not compared
filesChangedNewOnly(files, origFiles) ==
    \E i \in 1..Len(files) : ~files[i].isExisting

filesChanged(files, origFiles) ==
    \/ \E i \in 1..Len(files) : ~files[i].isExisting
    \/ Len(origFiles) # Len(files)

\* checkForChanges: the new hasChanges and the new disabled state of the button
checkForChanges(nameVal, personaVal, origName, origPersona, files, origFiles, justFinished) ==
    LET nameChanged    == nameVal # origName
        personaChanged == personaVal # origPersona
        hc == nameChanged \/ personaChanged \/ filesChanged(files, origFiles)
    IN  [hasChanges |-> hc,
         disabled   |-> IF justFinished THEN FALSE ELSE ~hc]

-----------------------------------------------------------------------------
(* Environment budget *)

\* the environment produces one more event of that kind
Spend(what) ==
    /\ budget[what] > 0
    /\ budget' = [budget EXCEPT ![what] = @ - 1]

-----------------------------------------------------------------------------
(* Network: fetch() requests and their responses *)

\* st: "req" (as dispatched), then the response: "ok" (2xx with a JSON body),
\* "err" (an error status with a JSON {error} body), "fail" (fetch or .json()
\* rejects: a network failure or a body that is not JSON).
Request(kind, agent) ==
    [kind |-> kind, agent |-> agent, st |-> "req", name |-> Null, persona |-> Null,
     files |-> {}, row |-> 0, snap |-> <<>>, complete |-> FALSE]

StatusRequest(agent)  == Request("status", agent)
AgentRequest(agent)   == Request("refetch", agent)
LoadRequest(agent)    == Request("load", agent)
PutRequest(agent, n, p) == [Request("put", agent) EXCEPT !.name = n, !.persona = p]
UploadRequest(agent, names) == [Request("upload", agent) EXCEPT !.files = names]
DeleteFileRequest(agent, fileName, rowId) ==
    [Request("delfile", agent) EXCEPT !.files = {fileName}, !.row = rowId]
DeleteAgentRequest(agent) == Request("delagent", agent)

InFlight(kind) == {m \in net : m.kind = kind}

-----------------------------------------------------------------------------
(* Backend (external): the agent record behind the REST interface *)

\* the backend state as one value
Srv == [name |-> srvName, persona |-> srvPersona, files |-> srvFiles]

NoFiles == [f \in FileNames |-> "absent"]

\* files of an agent record, as GET /api/agents/{name} and processing-status list them
SrvList(files) ==
    LET names == SelectSeq(NameOrder, LAMBDA f : f \in FileNames /\ files[f] # "absent")
    IN  [i \in 1..Len(names) |-> [name |-> names[i], status |-> files[names[i]]]]

SrvAnyProcessing(files) == \E f \in FileNames : files[f] \in {"pending", "processing"}

\* processing_complete of the status response
SrvComplete(files) == ~SrvAnyProcessing(files)

\* the response of the backend in state b to request r
Response(b, r) ==
    IF r.kind = "create"
    THEN [r EXCEPT !.st = IF b.name = Null THEN "ok" ELSE "err"]
    ELSE IF r.agent = TemplateAgentName /\ r.kind = "status"
    THEN [r EXCEPT !.st = "ok", !.complete = TRUE]
    ELSE IF r.agent # b.name THEN [r EXCEPT !.st = "err"]
    ELSE CASE r.kind \in {"load", "refetch", "status"} ->
                [r EXCEPT !.st = "ok", !.name = b.name, !.persona = b.persona,
                          !.snap = SrvList(b.files), !.complete = SrvComplete(b.files)]
           [] r.kind = "delfile" ->
                [r EXCEPT !.st = IF \E f \in r.files : b.files[f] # "absent"
                                 THEN "ok" ELSE "err"]
           [] OTHER -> [r EXCEPT !.st = "ok"]

\* the backend state after it has served request r in state b
Effect(b, r) ==
    IF r.kind = "create"
    THEN IF b.name = Null
         THEN [name |-> r.name, persona |-> r.persona, files |-> NoFiles]
         ELSE b
    ELSE IF r.agent # b.name THEN b
    ELSE CASE r.kind = "put" -> [b EXCEPT !.name = r.name, !.persona = r.persona]
           [] r.kind = "upload" ->
                [b EXCEPT !.files =
                    [f \in FileNames |-> IF f \in r.files THEN "pending" ELSE b.files[f]]]
           [] r.kind = "delfile" ->
                [b EXCEPT !.files =
                    [f \in FileNames |-> IF f \in r.files THEN "absent" ELSE b.files[f]]]
           [] r.kind = "delagent" -> [b EXCEPT !.name = Null]
           [] OTHER -> b

\* the requests reqs reach the backend in order, except those that are lost
\* (fetch rejects): the backend state after them and the responses
RECURSIVE ServeSeq(_, _, _)
ServeSeq(b, reqs, lost) ==
    IF reqs = <<>> THEN [b |-> b, out |-> {}]
    ELSE LET r    == Head(reqs)
             resp == IF Head(lost) THEN [r EXCEPT !.st = "fail"] ELSE Response(b, r)
             rest == ServeSeq(IF Head(lost) THEN b ELSE Effect(b, r),
                              Tail(reqs), Tail(lost))
         IN  [b |-> rest.b, out |-> {resp} \cup rest.out]

\* a task consumes the responses `consumed` and dispatches the requests `reqs`
Dispatch(consumed, reqs) ==
    \E lost \in [1..Len(reqs) -> BOOLEAN] :
        LET n == Cardinality({i \in 1..Len(reqs) : lost[i]})
            s == ServeSeq(Srv, reqs, lost)
        IN  /\ n <= faults
            /\ faults' = faults - n
            /\ net' = (net \ consumed) \cup s.out
            /\ srvName' = s.b.name
            /\ srvPersona' = s.b.persona
            /\ srvFiles' = s.b.files

\* the ingestion pipeline advances one file
SrvProcess(f) ==
    /\ srvName # Null
    /\ UNCHANGED <<mvars, cvars, ovars, net, srvName, srvPersona, evars>>
    /\ \/ /\ srvFiles[f] = "pending"
          /\ srvFiles' = [srvFiles EXCEPT ![f] = "processing"]
       \/ /\ srvFiles[f] = "processing"
          /\ \E s \in {"success", "error"} : srvFiles' = [srvFiles EXCEPT ![f] = s]

-----------------------------------------------------------------------------
(* Manage page: handlers of manage.js *)

Alert(kind) == [kind |-> kind, names |-> <<>>]
WaitNotice == Alert("wait")
RejectedNotice(names) == [kind |-> "rejected", names |-> names]

\* what the task that just ran did
Did(op, al, sent) ==
    /\ lastOp' = [op |-> op, files |-> <<>>]
    /\ alerts' = al
    /\ sentNow' = sent

Button(text, disabled) == [text |-> text, disabled |-> disabled]

\* checkForChanges on the current module state, given the values it reads
Check(files, origFiles, justFinished) ==
    checkForChanges(agentNameInput, agentPersonaInput, originalAgentName,
                    originalAgentPersona, files, origFiles, justFinished)

\* 'input' event on #agentName
EditName(v) ==
    /\ page = "open"
    /\ UNCHANGED cvars
    /\ Spend("edits")
    /\ v # agentNameInput
    /\ agentNameInput' = v
    /\ LET c == checkForChanges(v, agentPersonaInput, originalAgentName,
                                originalAgentPersona, uploadedFiles, originalFiles,
                                justFinishedProcessing)
       IN  /\ hasChanges' = c.hasChanges
           /\ updateButton' = [updateButton EXCEPT !.disabled = c.disabled]
    /\ Did("editName", <<>>, <<>>)
    /\ UNCHANGED <<uploadedFiles, originalAgentName, originalAgentPersona, originalFiles,
                   statusInterval, filesCurrentlyProcessing, justFinishedProcessing,
                   agentPersonaInput, fileList, page, net, svars, refetches, faults>>

\* 'input' event on #agentPersona
EditPersona(v) ==
    /\ page = "open"
    /\ UNCHANGED cvars
    /\ Spend("edits")
    /\ v # agentPersonaInput
    /\ agentPersonaInput' = v
    /\ LET c == checkForChanges(agentNameInput, v, originalAgentName,
                                originalAgentPersona, uploadedFiles, originalFiles,
                                justFinishedProcessing)
       IN  /\ hasChanges' = c.hasChanges
           /\ updateButton' = [updateButton EXCEPT !.disabled = c.disabled]
    /\ Did("editPersona", <<>>, <<>>)
    /\ UNCHANGED <<uploadedFiles, originalAgentName, originalAgentPersona, originalFiles,
                   statusInterval, filesCurrentlyProcessing, justFinishedProcessing,
                   agentNameInput, fileList, page, net, svars, refetches, faults>>

\* checkProcessingStatus: the requests it dispatches
checkProcessingStatus(agent) == IF agent = "" THEN <<>> ELSE <<StatusRequest(agent)>>

\* a tick of the interval set by startProcessingStatusMonitor
Tick ==
    /\ page = "open"
    /\ UNCHANGED cvars
    /\ Spend("ticks")
    /\ statusInterval # 0
    /\ Cardinality(InFlight("status")) < MaxStatusInFlight
    /\ Dispatch({}, checkProcessingStatus(originalAgentName))
    /\ Did("tick", <<>>, checkProcessingStatus(originalAgentName))
    /\ UNCHANGED <<mvars, refetches>>

\* the rows and entries loadAgentData builds from the files of the record
RECURSIVE LoadRows(_, _)
LoadRows(rows, snap) ==
    IF snap = <<>> THEN rows
    ELSE LoadRows(addFileToUI(rows, InFlight("delfile"), Head(snap).name,
                              OrDefault(Head(snap).status, "unknown")),
                  Tail(snap))

LoadEntries(snap) == [i \in 1..Len(snap) |-> LoadedEntry(snap[i])]

\* the response to loadAgentData's GET arrives
LoadResponse(m) ==
    /\ page = "open"
    /\ UNCHANGED cvars
    /\ m \in InFlight("load")
    /\ UNCHANGED budget
    /\ IF m.st = "ok"
       THEN /\ originalAgentName' = m.name
            /\ originalAgentPersona' = OrDefault(m.persona, "")
            /\ agentNameInput' = m.name
            /\ agentPersonaInput' = OrDefault(m.persona, "")
            /\ fileList' = LoadRows(<<>>, m.snap)
            /\ uploadedFiles' = LoadEntries(m.snap)
            /\ originalFiles' = LoadEntries(m.snap)
            \* startProcessingStatusMonitor
            /\ Dispatch({m}, checkProcessingStatus(m.name))
            /\ statusInterval' = 1
            /\ refetches' = 0
            /\ LET c == checkForChanges(m.name, OrDefault(m.persona, ""), m.name,
                                        OrDefault(m.persona, ""), LoadEntries(m.snap),
                                        LoadEntries(m.snap), justFinishedProcessing)
               IN  /\ hasChanges' = c.hasChanges
                   /\ updateButton' = [updateButton EXCEPT !.disabled = c.disabled]
            /\ Did("load", <<>>, checkProcessingStatus(m.name))
            /\ UNCHANGED <<filesCurrentlyProcessing, justFinishedProcessing, page>>
       ELSE /\ page' = "left"
            /\ Dispatch({m}, <<>>)
            /\ Did("loadFailed", <<Alert("loadFailed")>>, <<>>)
            /\ UNCHANGED <<uploadedFiles, originalAgentName, originalAgentPersona,
                           originalFiles, hasChanges, statusInterval,
                           filesCurrentlyProcessing, justFinishedProcessing,
                           agentNameInput, agentPersonaInput, updateButton, fileList,
                           refetches>>

-----------------------------------------------------------------------------
(* Manage page: file staging *)

\* the forEach of handleFiles, file by file; st carries what the loop updates
RECURSIVE handleFilesLoop(_, _)
handleFilesLoop(files, st) ==
    IF files = <<>> THEN st
    ELSE LET file == Head(files) IN
         IF ~isFileTypeAllowed(file)
         THEN handleFilesLoop(Tail(files),
                              [st EXCEPT !.rejectedFiles = Append(@, file.name)])
         ELSE IF isDuplicate(st.uploadedFiles, file)
         THEN handleFilesLoop(Tail(files), st)
         ELSE LET up == Append(st.uploadedFiles, NewEntry(file))
                  c  == Check(up, originalFiles, FALSE)
              IN  handleFilesLoop(Tail(files),
                     [st EXCEPT !.uploadedFiles = up,
                                !.fileList = addFileToUI(@, InFlight("delfile"), file.name, "ready"),
                                !.justFinishedProcessing = FALSE,
                                !.hasChanges = c.hasChanges,
                                !.disabled = c.disabled])

\* the alerts of handleFiles
rejectedAlert(rejectedFiles) ==
    IF Len(rejectedFiles) > 0 THEN <<RejectedNotice(rejectedFiles)>> ELSE <<>>

\* 'change' on #fileInput or 'drop' on the dropzone
HandleFiles(files) ==
    /\ page = "open"
    /\ UNCHANGED cvars
    /\ Spend("adds")
    /\ LET st == handleFilesLoop(files,
                    [uploadedFiles |-> uploadedFiles, fileList |-> fileList,
                     justFinishedProcessing |-> justFinishedProcessing,
                     hasChanges |-> hasChanges, disabled |-> updateButton.disabled,
                     rejectedFiles |-> <<>>])
       IN  /\ Len(st.fileList) <= MaxRows
           /\ uploadedFiles' = st.uploadedFiles
           /\ fileList' = st.fileList
           /\ justFinishedProcessing' = st.justFinishedProcessing
           /\ hasChanges' = st.hasChanges
           /\ updateButton' = [updateButton EXCEPT !.disabled = st.disabled]
           /\ lastOp' = [op |-> "handleFiles", files |-> files]
           /\ alerts' = rejectedAlert(st.rejectedFiles)
           /\ sentNow' = <<>>
    /\ UNCHANGED <<originalAgentName, originalAgentPersona, originalFiles, statusInterval,
                   filesCurrentlyProcessing, agentNameInput, agentPersonaInput, page,
                   net, svars, refetches, faults>>

\* variant of existingFile: the test reads `processed`
existingFileByProcessed(files, fileName) ==
    \E i \in 1..Len(files) : files[i].name = fileName /\ files[i].processed

\* the remove handler's test (manage.js:590-592): find() returns an entry of that
\* name that is an existing one, or undefined
existingFile(files, fileName) ==
    \E i \in 1..Len(files) : files[i].name = fileName /\ files[i].isExisting

\* removal of an entry and of the clicked row, as both branches of the remove
\* handler do it
removeLocally(fileName, rowId) ==
    LET up == removeFile(uploadedFiles, fileName)
        c  == Check(up, originalFiles, justFinishedProcessing)
    IN  /\ uploadedFiles' = up
        /\ fileList' = RemoveRow(fileList, rowId)
        /\ hasChanges' = c.hasChanges
        /\ updateButton' = [updateButton EXCEPT !.disabled = c.disabled]
        /\ justFinishedProcessing' =
              IF Len(up) = 0 THEN FALSE ELSE justFinishedProcessing

\* click on the remove icon of row i
RemoveClick(i) ==
    /\ page = "open"
    /\ UNCHANGED cvars
    /\ Spend("removes")
    /\ i \in 1..Len(fileList)
    /\ LET fileName == fileList[i].name
           del == DeleteFileRequest(originalAgentName, fileName, fileList[i].id)
       IN  /\ lastOp' = [op |-> "remove", files |-> <<UserFile(fileName, Null)>>]
           /\ alerts' = <<>>
           /\ IF existingFile(uploadedFiles, fileName)
              THEN /\ Cardinality(InFlight("delfile")) < MaxDeleteInFlight
                   /\ Dispatch({}, <<del>>)
                   /\ sentNow' = <<del>>
                   /\ UNCHANGED <<uploadedFiles, fileList, hasChanges, updateButton,
                                  justFinishedProcessing>>
              ELSE /\ removeLocally(fileName, fileList[i].id)
                   /\ Dispatch({}, <<>>)
                   /\ sentNow' = <<>>
    /\ UNCHANGED <<originalAgentName, originalAgentPersona, originalFiles, statusInterval,
                   filesCurrentlyProcessing, agentNameInput, agentPersonaInput, page,
                   refetches>>

\* the response to a file DELETE arrives
DeleteFileResponse(m) ==
    /\ page = "open"
    /\ UNCHANGED cvars
    /\ m \in InFlight("delfile")
    /\ UNCHANGED budget
    /\ Dispatch({m}, <<>>)
    /\ IF m.st \in {"ok", "err"}
       THEN /\ \E f \in m.files : removeLocally(f, m.row)
            /\ Did("fileDeleted", <<>>, <<>>)
       ELSE /\ Did("fileDeleteFailed", <<Alert("deleteFileFailed")>>, <<>>)
            /\ UNCHANGED <<uploadedFiles, fileList, hasChanges, updateButton,
                           justFinishedProcessing>>
    /\ UNCHANGED <<originalAgentName, originalAgentPersona, originalFiles, statusInterval,
                   filesCurrentlyProcessing, agentNameInput, agentPersonaInput, page,
                   refetches>>

-----------------------------------------------------------------------------
(* Manage page: submit *)

\* beforeunload runs cleanup, which stops the monitor
Leave ==
    /\ page' = "left"
    /\ statusInterval' = 0

\* variant of submitRejected: the guard is missing
submitNeverRejected == FALSE

\* manage.js:653, the guard that rejects a submit
submitRejected == filesCurrentlyProcessing

\* variant of newFiles: every staged entry is carried
newFilesAll(files) == {files[i].name : i \in 1..Len(files)}

\* the names of the entries the upload carries (manage.js:702)
newFiles(files) == {files[i].name : i \in {j \in 1..Len(files) : files[j].isFile}}

\* updateFileStatus(name, 'processing') for every new file, in array order
RECURSIVE markProcessing(_, _)
markProcessing(rows, files) ==
    IF files = <<>> THEN rows
    ELSE markProcessing(IF Head(files).isFile
                        THEN updateFileStatus(rows, Head(files).name, "processing")
                        ELSE rows,
                        Tail(files))

\* 'submit' on the form: the button is enabled and both required fields are filled
Submit ==
    /\ page = "open"
    /\ UNCHANGED cvars
    /\ Spend("submits")
    /\ ~updateButton.disabled
    /\ agentNameInput # "" /\ agentPersonaInput # ""
    /\ LET put == PutRequest(originalAgentName, agentNameInput, agentPersonaInput)
       IN  IF submitRejected
           THEN /\ Did("submit", <<WaitNotice>>, <<>>)
                /\ Dispatch({}, <<>>)
                /\ UNCHANGED <<updateButton, page, statusInterval>>
           ELSE IF ~hasChanges
           THEN /\ Leave
                /\ Dispatch({}, <<>>)
                /\ Did("submit", <<>>, <<>>)
                /\ UNCHANGED updateButton
           ELSE /\ updateButton' = Button("Saving...", TRUE)
                /\ Dispatch({}, <<put>>)
                /\ Did("submit", <<>>, <<put>>)
                /\ UNCHANGED <<page, statusInterval>>
    /\ UNCHANGED <<uploadedFiles, originalAgentName, originalAgentPersona, originalFiles,
                   hasChanges, filesCurrentlyProcessing, justFinishedProcessing,
                   agentNameInput, agentPersonaInput, fileList, refetches>>

\* variant of submitFailed: the catch does not stop the monitor
submitFailedKeepsPolling(op) ==
    LET c == Check(uploadedFiles, originalFiles, justFinishedProcessing)
    IN  /\ hasChanges' = c.hasChanges
        /\ updateButton' = Button("Save", c.disabled)
        /\ UNCHANGED statusInterval
        /\ Did(op, <<Alert("updateError")>>, <<>>)

\* the catch of the submit chain (manage.js:784-791): resetUpdateButtonState('Save')
\* and stopProcessingStatusMonitor
submitFailed(op) ==
    LET c == Check(uploadedFiles, originalFiles, justFinishedProcessing)
    IN  /\ hasChanges' = c.hasChanges
        /\ updateButton' = Button("Save", c.disabled)
        /\ statusInterval' = 0
        /\ Did(op, <<Alert("updateError")>>, <<>>)

\* the response to the PUT arrives: the first .then of the submit chain, or its catch
PutResponse(m) ==
    /\ page = "open"
    /\ UNCHANGED cvars
    /\ m \in InFlight("put")
    /\ UNCHANGED budget
    /\ IF m.st # "ok"
       THEN /\ submitFailed("putFailed")
            /\ Dispatch({m}, <<>>)
            /\ UNCHANGED <<originalAgentName, originalAgentPersona, fileList,
                           filesCurrentlyProcessing, page>>
       ELSE /\ originalAgentName' = m.name
            /\ originalAgentPersona' = m.persona
            /\ IF newFiles(uploadedFiles) # {}
               THEN LET up == UploadRequest(m.name, newFiles(uploadedFiles))
                    IN  /\ fileList' = markProcessing(fileList, uploadedFiles)
                        /\ filesCurrentlyProcessing' = TRUE
                        /\ updateButton' = Button("Processing Files...", TRUE)
                        /\ Dispatch({m}, <<up>>)
                        /\ Did("putOkUpload", <<>>, <<up>>)
                        /\ UNCHANGED <<hasChanges, page, statusInterval>>
               ELSE /\ filesCurrentlyProcessing' = TRUE
                    /\ updateButton' = Button("Save", TRUE)
                    /\ Dispatch({m}, <<>>)
                    /\ Did("putOkPlain", <<>>, <<>>)
                    /\ UNCHANGED fileList
                    /\ IF justFinishedProcessing
                       THEN /\ Leave
                            /\ UNCHANGED hasChanges
                       ELSE /\ hasChanges' = FALSE
                            /\ UNCHANGED <<page, statusInterval>>
    /\ UNCHANGED <<uploadedFiles, originalFiles, justFinishedProcessing, agentNameInput,
                   agentPersonaInput, refetches>>

\* the response to the upload POST arrives: the second .then, or the catch
UploadResponse(m) ==
    /\ page = "open"
    /\ UNCHANGED cvars
    /\ m \in InFlight("upload")
    /\ UNCHANGED budget
    /\ Dispatch({m}, <<>>)
    /\ IF m.st = "fail"
       THEN submitFailed("uploadFailed")
       ELSE /\ Did("uploadOk", <<>>, <<>>)
            /\ UNCHANGED <<hasChanges, updateButton, statusInterval>>
    /\ UNCHANGED <<uploadedFiles, originalAgentName, originalAgentPersona, originalFiles,
                   filesCurrentlyProcessing, justFinishedProcessing, agentNameInput,
                   agentPersonaInput, fileList, page, refetches>>

-----------------------------------------------------------------------------
(* Manage page: status polling *)

\* anyProcessing of a status response (manage.js:150-165)
anyProcessing(snap) ==
    \E i \in 1..Len(snap) : snap[i].status \in {"processing", "pending"}

\* the completion edge (manage.js:172)
completionEdge(wasProcessing, snap, complete) ==
    wasProcessing /\ ~anyProcessing(snap) /\ complete

\* variant of StatusResponse: a failed status check stops the monitor and is
\* reported to the user
StatusResponseFailureStops(m) ==
    /\ page = "open"
    /\ UNCHANGED cvars
    /\ m \in InFlight("status")
    /\ UNCHANGED budget
    /\ IF m.st = "ok"
       THEN LET edge == completionEdge(filesCurrentlyProcessing, m.snap, m.complete)
                get  == IF edge THEN <<AgentRequest(originalAgentName)>> ELSE <<>>
            IN  /\ fileList' = UpdateAll(fileList, m.snap)
                /\ filesCurrentlyProcessing' = anyProcessing(m.snap)
                /\ Dispatch({m}, get)
                /\ refetches' = IF edge THEN Min(refetches + 1, MaxCount) ELSE refetches
                /\ Did("status", <<>>, get)
       ELSE /\ Dispatch({m}, <<>>)
            /\ Did("statusFailed", <<Alert("statusFailed")>>, <<>>)
            /\ UNCHANGED <<fileList, filesCurrentlyProcessing, refetches>>
    /\ statusInterval' = IF m.st = "ok" THEN statusInterval ELSE 0
    /\ UNCHANGED <<uploadedFiles, originalAgentName, originalAgentPersona, originalFiles,
                   hasChanges, justFinishedProcessing, agentNameInput,
                   agentPersonaInput, updateButton, page>>

\* the response to a processing-status GET arrives
StatusResponse(m) ==
    /\ page = "open"
    /\ UNCHANGED cvars
    /\ m \in InFlight("status")
    /\ UNCHANGED budget
    /\ IF m.st = "ok"
       THEN LET edge == completionEdge(filesCurrentlyProcessing, m.snap, m.complete)
                get  == IF edge THEN <<AgentRequest(originalAgentName)>> ELSE <<>>
            IN  /\ fileList' = UpdateAll(fileList, m.snap)
                /\ filesCurrentlyProcessing' = anyProcessing(m.snap)
                /\ Dispatch({m}, get)
                /\ refetches' = IF edge THEN Min(refetches + 1, MaxCount) ELSE refetches
                /\ Did("status", <<>>, get)
       ELSE /\ Dispatch({m}, <<>>)
            /\ Did("statusFailed", <<>>, <<>>)
            /\ UNCHANGED <<fileList, filesCurrentlyProcessing, refetches>>
    /\ UNCHANGED <<uploadedFiles, originalAgentName, originalAgentPersona, originalFiles,
                   hasChanges, statusInterval, justFinishedProcessing, agentNameInput,
                   agentPersonaInput, updateButton, page>>

\* updateFileStatus(name, 'success') for every processed file of the re-fetched record
RECURSIVE markSuccess(_, _)
markSuccess(rows, snap) ==
    IF snap = <<>> THEN rows
    ELSE markSuccess(IF Head(snap).status = "success"
                     THEN updateFileStatus(rows, Head(snap).name, "success")
                     ELSE rows,
                     Tail(snap))

markAll(files) == [i \in 1..Len(files) |-> MarkProcessed(files[i])]

\* the response to the re-fetch of the agent record arrives (manage.js:175-230);
\* an error body has no files and is handled like a record without files
RefetchResponse(m) ==
    /\ page = "open"
    /\ UNCHANGED cvars
    /\ m \in InFlight("refetch")
    /\ UNCHANGED budget
    /\ Dispatch({m}, <<>>)
    /\ IF m.st = "fail"
       THEN /\ Did("refetchFailed", <<>>, <<>>)
            /\ UNCHANGED <<uploadedFiles, originalFiles, statusInterval,
                           justFinishedProcessing, updateButton, fileList>>
       ELSE /\ fileList' = markSuccess(fileList, IF m.st = "ok" THEN m.snap ELSE <<>>)
            /\ justFinishedProcessing' = TRUE
            /\ originalFiles' = markAll(uploadedFiles)
            /\ uploadedFiles' = markAll(uploadedFiles)
            /\ updateButton' = Button("Save", FALSE)
            /\ statusInterval' = 0
            /\ Did("completed", <<>>, <<>>)
    /\ UNCHANGED <<originalAgentName, originalAgentPersona, hasChanges,
                   filesCurrentlyProcessing, agentNameInput, agentPersonaInput, page,
                   refetches>>

-----------------------------------------------------------------------------
(* Manage page: delete the agent *)

\* click on #deleteAgentBtn, confirmed
DeleteAgentClick ==
    /\ page = "open"
    /\ UNCHANGED cvars
    /\ Spend("agentDeletes")
    /\ InFlight("delagent") = {}
    /\ statusInterval' = 0
    /\ Dispatch({}, <<DeleteAgentRequest(originalAgentName)>>)
    /\ Did("deleteAgent", <<>>, <<DeleteAgentRequest(originalAgentName)>>)
    /\ UNCHANGED <<uploadedFiles, originalAgentName, originalAgentPersona, originalFiles,
                   hasChanges, filesCurrentlyProcessing, justFinishedProcessing,
                   agentNameInput, agentPersonaInput, updateButton, fileList, page,
                   refetches>>

DeleteAgentResponse(m) ==
    /\ page = "open"
    /\ UNCHANGED cvars
    /\ m \in InFlight("delagent")
    /\ UNCHANGED budget
    /\ Dispatch({m}, <<>>)
    /\ IF m.st = "fail"
       THEN /\ Did("deleteAgentFailed", <<Alert("deleteAgentFailed")>>, <<>>)
            /\ UNCHANGED <<page, statusInterval>>
       ELSE /\ Leave
            /\ Did("agentDeleted", <<>>, <<>>)
    /\ UNCHANGED <<uploadedFiles, originalAgentName, originalAgentPersona, originalFiles,
                   hasChanges, filesCurrentlyProcessing, justFinishedProcessing,
                   agentNameInput, agentPersonaInput, updateButton, fileList,
                   refetches>>

-----------------------------------------------------------------------------
(* Create page: handlers of config.js *)

\* File objects the user can select or drop on the create page, with their size
CfgFile(n, t, z) == [name |-> n, type |-> t, size |-> z]
CfgCandidates == { CfgFile("a.pdf", "application/pdf", 1),
                   CfgFile("a.pdf", "application/pdf", 2),
                   CfgFile("b.PDF", "", 1),
                   CfgFile("c.txt", "text/plain", 1) }

\* what a task of the create page did
CfgDid(op, al, sent) ==
    /\ Did(op, al, sent)
    /\ UNCHANGED <<mvars, refetches>>

\* config.js:65-79
cfgIsFileTypeAllowed(file) ==
    \/ AllowedIncludes(file.type)
    \/ \E i \in 1..Len(allowedFileTypes) :
          /\ StartsWith(Chars(allowedFileTypes[i]), <<".">>)
          /\ EndsWith(ToLowerCase(Chars(file.name)), Chars(allowedFileTypes[i]))

\* the duplicate test of handleFiles (config.js:138)
cfgIsDuplicate(files, file) ==
    \E i \in 1..Len(files) : files[i].name = file.name /\ files[i].size = file.size

\* config.js:287-289
cfgRemoveFile(files, fileName) == SelectSeq(files, LAMBDA f : f.name # fileName)

\* the forEach of handleFiles (config.js:130-144), file by file
RECURSIVE cfgHandleFilesLoop(_, _)
cfgHandleFilesLoop(files, st) ==
    IF files = <<>> THEN st
    ELSE LET file == Head(files) IN
         IF ~cfgIsFileTypeAllowed(file)
         THEN cfgHandleFilesLoop(Tail(files),
                                 [st EXCEPT !.rejectedFiles = Append(@, file.name)])
         ELSE IF cfgIsDuplicate(st.uploadedFiles, file)
         THEN cfgHandleFilesLoop(Tail(files), st)
         ELSE cfgHandleFilesLoop(Tail(files),
                 [st EXCEPT !.uploadedFiles = Append(@, file),
                            !.fileList = addFileToUI(@, InFlight("delfile"),
                                                     file.name, "ready")])

\* 'change' on #fileInput or 'drop' on the dropzone (config.js:126-150)
CfgHandleFiles(files) ==
    /\ cfgPage = "open"
    /\ Spend("adds")
    /\ LET st == cfgHandleFilesLoop(files,
                    [uploadedFiles |-> cfgUploadedFiles, fileList |-> cfgFileList,
                     rejectedFiles |-> <<>>])
       IN  /\ Len(st.fileList) <= MaxRows
           /\ cfgUploadedFiles' = st.uploadedFiles
           /\ cfgFileList' = st.fileList
           /\ lastOp' = [op |-> "cfgHandleFiles", files |-> files]
           /\ alerts' = rejectedAlert(st.rejectedFiles)
           /\ sentNow' = <<>>
    /\ UNCHANGED <<currentAgentName, processingStatusInterval, processingComplete,
                   liveIntervals, cfgAgentNameInput, cfgAgentPersonaInput, submitButton,
                   cfgPage, templateTimer, mvars, refetches, net, svars, faults>>

\* click on the remove icon of row i (config.js:178-209)
CfgRemoveClick(i) ==
    /\ cfgPage = "open"
    /\ Spend("removes")
    /\ i \in 1..Len(cfgFileList)
    /\ LET fileName == cfgFileList[i].name
           del == DeleteFileRequest(currentAgentName, fileName, cfgFileList[i].id)
       IN  /\ lastOp' = [op |-> "cfgRemove", files |-> <<UserFile(fileName, Null)>>]
           /\ alerts' = <<>>
           /\ IF currentAgentName # Null /\ processingComplete
              THEN /\ Cardinality(InFlight("delfile")) < MaxDeleteInFlight
                   /\ Dispatch({}, <<del>>)
                   /\ sentNow' = <<del>>
                   /\ UNCHANGED <<cfgUploadedFiles, cfgFileList>>
              ELSE /\ cfgUploadedFiles' = cfgRemoveFile(cfgUploadedFiles, fileName)
                   /\ cfgFileList' = RemoveRow(cfgFileList, cfgFileList[i].id)
                   /\ Dispatch({}, <<>>)
                   /\ sentNow' = <<>>
    /\ UNCHANGED <<currentAgentName, processingStatusInterval, processingComplete,
                   liveIntervals, cfgAgentNameInput, cfgAgentPersonaInput, submitButton,
                   cfgPage, templateTimer, mvars, refetches>>

\* the response to a file DELETE arrives: the entry and the row are removed by
\* the .then and by the catch alike (config.js:187-203)
CfgDeleteFileResponse(m) ==
    /\ cfgPage = "open"
    /\ m \in InFlight("delfile")
    /\ UNCHANGED budget
    /\ Dispatch({m}, <<>>)
    /\ \E f \in m.files : cfgUploadedFiles' = cfgRemoveFile(cfgUploadedFiles, f)
    /\ cfgFileList' = RemoveRow(cfgFileList, m.row)
    /\ CfgDid(IF m.st = "ok" THEN "cfgFileDeleted" ELSE "cfgFileDeleteFailed", <<>>, <<>>)
    /\ UNCHANGED <<currentAgentName, processingStatusInterval, processingComplete,
                   liveIntervals, cfgAgentNameInput, cfgAgentPersonaInput, submitButton,
                   cfgPage, templateTimer>>

\* config.js checkProcessingStatus (320-323): the requests it dispatches
cfgCheckProcessingStatus(agent) ==
    IF agent = Null \/ agent = "" THEN <<>> ELSE <<StatusRequest(agent)>>

\* startProcessingStatusMonitor (config.js:294-305): the handle of the new interval
\* replaces the old one, which is not cleared
cfgStartMonitor(agentName) ==
    /\ currentAgentName' = agentName
    /\ processingComplete' = FALSE
    /\ processingStatusInterval' = 1
    /\ liveIntervals' = liveIntervals + 1

\* stopProcessingStatusMonitor (config.js:310-315): the interval left after it
cfgStopMonitor ==
    /\ processingStatusInterval' = 0
    /\ liveIntervals' = IF processingStatusInterval = 1
                        THEN liveIntervals - 1 ELSE liveIntervals

\* the timeout of the template's inline script fires (part_000:602-613)
TemplateStart ==
    /\ cfgPage = "open"
    /\ templateTimer # Null
    /\ templateTimer' = Null
    /\ liveIntervals < MaxIntervals
    /\ cfgStartMonitor(templateTimer)
    /\ Dispatch({}, cfgCheckProcessingStatus(templateTimer))
    /\ CfgDid("templateStart", <<>>, cfgCheckProcessingStatus(templateTimer))
    /\ UNCHANGED <<cfgUploadedFiles, cfgAgentNameInput, cfgAgentPersonaInput,
                   submitButton, cfgFileList, cfgPage, budget>>

\* a tick of one of the live intervals
CfgTick ==
    /\ cfgPage = "open"
    /\ Spend("ticks")
    /\ liveIntervals > 0
    /\ Cardinality(InFlight("status")) < MaxStatusInFlight
    /\ Dispatch({}, cfgCheckProcessingStatus(currentAgentName))
    /\ CfgDid("cfgTick", <<>>, cfgCheckProcessingStatus(currentAgentName))
    /\ UNCHANGED cvars

\* the response to a processing-status GET arrives (config.js:324-360)
CfgStatusResponse(m) ==
    /\ cfgPage = "open"
    /\ m \in InFlight("status")
    /\ UNCHANGED budget
    /\ Dispatch({m}, <<>>)
    /\ IF m.st = "ok"
       THEN /\ cfgFileList' = UpdateAll(cfgFileList, m.snap)
            /\ IF m.complete /\ ~processingComplete
               THEN /\ processingComplete' = TRUE
                    /\ submitButton' = Button("Confirm Agent Creation", FALSE)
                    /\ cfgStopMonitor
                    /\ CfgDid("cfgCompleted", <<>>, <<>>)
               ELSE /\ CfgDid("cfgStatus", <<>>, <<>>)
                    /\ UNCHANGED <<processingComplete, submitButton,
                                   processingStatusInterval, liveIntervals>>
       ELSE /\ CfgDid("cfgStatusFailed", <<>>, <<>>)
            /\ UNCHANGED <<cfgFileList, processingComplete, submitButton,
                           processingStatusInterval, liveIntervals>>
    /\ UNCHANGED <<cfgUploadedFiles, currentAgentName, cfgAgentNameInput,
                   cfgAgentPersonaInput, cfgPage, templateTimer>>

\* the names of the files an upload of the create page carries (config.js:443-447)
StagedFileNames(files) == {files[i].name : i \in 1..Len(files)}

\* updateFileStatus(name, 'processing') for every staged file, in array order
RECURSIVE cfgMarkProcessing(_, _)
cfgMarkProcessing(rows, files) ==
    IF files = <<>> THEN rows
    ELSE cfgMarkProcessing(updateFileStatus(rows, Head(files).name, "processing"),
                           Tail(files))

CreateRequest(n, p) == [Request("create", n) EXCEPT !.name = n, !.persona = p]

\* 'submit' on the form (config.js:403-430): the button is enabled and both
\* required fields are filled
CfgSubmit ==
    /\ cfgPage = "open"
    /\ Spend("submits")
    /\ ~submitButton.disabled
    /\ cfgAgentNameInput # "" /\ cfgAgentPersonaInput # ""
    /\ LET post == CreateRequest(cfgAgentNameInput, cfgAgentPersonaInput)
       IN  IF processingComplete /\ submitButton.text = "Confirm Agent Creation"
           THEN /\ cfgPage' = "left"
                /\ Dispatch({}, <<>>)
                /\ CfgDid("cfgSubmit", <<>>, <<>>)
                /\ UNCHANGED submitButton
           ELSE /\ submitButton' = Button("Creating...", TRUE)
                /\ Dispatch({}, <<post>>)
                /\ CfgDid("cfgSubmit", <<>>, <<post>>)
                /\ UNCHANGED cfgPage
    /\ UNCHANGED <<cfgUploadedFiles, currentAgentName, processingStatusInterval,
                   processingComplete, liveIntervals, cfgAgentNameInput,
                   cfgAgentPersonaInput, cfgFileList, templateTimer>>

\* the catch of the submit chain (config.js:472-479)
cfgSubmitFailed(op) ==
    /\ submitButton' = Button("Create Agent", FALSE)
    /\ CfgDid(op, <<Alert("createError")>>, <<>>)

\* the response to POST /api/agents arrives (config.js:431-465)
CreateResponse(m) ==
    /\ cfgPage = "open"
    /\ m \in InFlight("create")
    /\ UNCHANGED budget
    /\ IF m.st # "ok"
       THEN /\ cfgSubmitFailed("createFailed")
            /\ Dispatch({m}, <<>>)
            /\ UNCHANGED <<currentAgentName, processingComplete,
                           processingStatusInterval, liveIntervals, cfgFileList>>
       ELSE /\ liveIntervals < MaxIntervals
            /\ cfgStartMonitor(m.name)
            /\ IF Len(cfgUploadedFiles) > 0
               THEN LET up == UploadRequest(m.name, StagedFileNames(cfgUploadedFiles))
                        reqs == cfgCheckProcessingStatus(m.name) \o <<up>>
                    IN  /\ cfgFileList' = cfgMarkProcessing(cfgFileList, cfgUploadedFiles)
                        /\ submitButton' =
                              [submitButton EXCEPT !.text = "Processing Files..."]
                        /\ Dispatch({m}, reqs)
                        /\ CfgDid("createOkUpload", <<>>, reqs)
               ELSE /\ submitButton' = Button("Confirm Agent Creation", FALSE)
                    /\ Dispatch({m}, cfgCheckProcessingStatus(m.name))
                    /\ CfgDid("createOkPlain", <<>>, cfgCheckProcessingStatus(m.name))
                    /\ UNCHANGED cfgFileList
    /\ UNCHANGED <<cfgUploadedFiles, cfgAgentNameInput, cfgAgentPersonaInput, cfgPage,
                   templateTimer>>

\* the response to the upload POST arrives (config.js:466-479)
CfgUploadResponse(m) ==
    /\ cfgPage = "open"
    /\ m \in InFlight("upload")
    /\ UNCHANGED budget
    /\ Dispatch({m}, <<>>)
    /\ IF m.st = "fail"
       THEN cfgSubmitFailed("cfgUploadFailed")
       ELSE /\ CfgDid("cfgUploadOk", <<>>, <<>>)
            /\ UNCHANGED submitButton
    /\ UNCHANGED <<cfgUploadedFiles, currentAgentName, processingStatusInterval,
                   processingComplete, liveIntervals, cfgAgentNameInput,
                   cfgAgentPersonaInput, cfgFileList, cfgPage, templateTimer>>

-----------------------------------------------------------------------------
(* Specifications of the manage page *)

\* the create page is not shown
CreateIdle ==
    /\ cfgUploadedFiles = <<>>
    /\ currentAgentName = Null
    /\ processingStatusInterval = 0
    /\ processingComplete = FALSE
    /\ liveIntervals = 0
    /\ cfgAgentNameInput = ""
    /\ cfgAgentPersonaInput = ""
    /\ submitButton = Button("Create Agent", FALSE)
    /\ cfgFileList = <<>>
    /\ cfgPage = "none"
    /\ templateTimer = Null

\* the state once initManage has run (manage.js:44-60): the load request is on its
\* way, the button reads Save and is disabled.  The agent of the URL has the
\* file a.pdf in one of `statuses` and a persona of `personas`; the environment
\* may produce the events of `b` and lose `lost` requests.
InitManage(b, lost, statuses, personas) ==
    /\ uploadedFiles = <<>>
    /\ originalAgentName = UrlAgentName
    /\ originalAgentPersona = ""
    /\ originalFiles = <<>>
    /\ hasChanges = FALSE
    /\ statusInterval = 0
    /\ filesCurrentlyProcessing = FALSE
    /\ justFinishedProcessing = FALSE
    /\ agentNameInput = ""
    /\ agentPersonaInput = ""
    /\ updateButton = Button("Save", TRUE)
    /\ fileList = <<>>
    /\ page = "open"
    /\ CreateIdle
    /\ srvName = UrlAgentName
    /\ srvPersona \in personas
    /\ \E s \in statuses :
          srvFiles = [f \in FileNames |-> IF f = "a.pdf" THEN s ELSE "absent"]
    /\ net = {Response(Srv, LoadRequest(UrlAgentName))}
    /\ lastOp = [op |-> "initManage", files |-> <<>>]
    /\ alerts = <<>>
    /\ sentNow = <<LoadRequest(UrlAgentName)>>
    /\ refetches = 0
    /\ budget = b
    /\ faults = lost

\* saving and polling: edits, additions of one file, submits, ticks, lost requests
Init ==
    InitManage([edits |-> MaxEdits, adds |-> MaxAdds, removes |-> 0,
                submits |-> MaxSubmits, agentDeletes |-> 0, ticks |-> MaxTicks],
               MaxFaults, {"absent", "processing"}, {"P"})

Next ==
    \/ \E v \in AgentNames : EditName(v)
    \/ \E f \in Candidates : HandleFiles(<<f>>)
    \/ Submit
    \/ Tick
    \/ \E m \in net : LoadResponse(m)
    \/ \E m \in net : PutResponse(m)
    \/ \E m \in net : UploadResponse(m)
    \/ \E m \in net : StatusResponse(m)
    \/ \E m \in net : RefetchResponse(m)
    \/ \E f \in FileNames : SrvProcess(f)

Spec == Init /\ [][Next]_vars

\* polling alone: the user only watches
InitPoll ==
    InitManage([edits |-> 0, adds |-> 0, removes |-> 0, submits |-> 0,
                agentDeletes |-> 0, ticks |-> PollTicks],
               PollFaults, {"absent", "processing", "success"}, {Null, "P"})

NextPoll ==
    \/ Tick
    \/ \E m \in net : LoadResponse(m)
    \/ \E m \in net : StatusResponse(m)
    \/ \E m \in net : RefetchResponse(m)
    \/ \E f \in FileNames : SrvProcess(f)

SpecPoll == InitPoll /\ [][NextPoll]_vars

\* staging: batches of files, removals, and the completion of the files that were
\* being processed when the page loaded
InitStaging ==
    InitManage([edits |-> 0, adds |-> StagingAdds, removes |-> StagingRemoves,
                submits |-> 0, agentDeletes |-> 0, ticks |-> StagingTicks],
               StagingFaults, {"absent", "processing", "success"}, {"P"})

NextStaging ==
    \/ \E files \in Batches : HandleFiles(files)
    \/ \E i \in 1..MaxRows : RemoveClick(i)
    \/ Tick
    \/ \E m \in net : LoadResponse(m)
    \/ \E m \in net : StatusResponse(m)
    \/ \E m \in net : RefetchResponse(m)
    \/ \E m \in net : DeleteFileResponse(m)
    \/ \E f \in FileNames : SrvProcess(f)

SpecStaging == InitStaging /\ [][NextStaging]_vars

\* editing and saving: edits of both fields, additions and removals of a file,
\* one submit
InitEdit ==
    InitManage([edits |-> EditEdits, adds |-> EditAdds, removes |-> EditRemoves,
                submits |-> EditSubmits, agentDeletes |-> 0, ticks |-> EditTicks],
               EditFaults, {"success"}, {"P"})

NextEdit ==
    \/ \E v \in AgentNames : EditName(v)
    \/ \E v \in Personas : EditPersona(v)
    \/ \E f \in Candidates : HandleFiles(<<f>>)
    \/ \E i \in 1..MaxRows : RemoveClick(i)
    \/ Submit
    \/ Tick
    \/ \E m \in net : LoadResponse(m)
    \/ \E m \in net : PutResponse(m)
    \/ \E m \in net : UploadResponse(m)
    \/ \E m \in net : StatusResponse(m)
    \/ \E m \in net : RefetchResponse(m)
    \/ \E m \in net : DeleteFileResponse(m)
    \/ \E f \in FileNames : SrvProcess(f)

SpecEdit == InitEdit /\ [][NextEdit]_vars

-----------------------------------------------------------------------------
(* Specification of the create page *)

\* the state once initConfig has run (config.js:35-58) with the name and the
\* persona given by the URL.  The backend has no agent of that name yet and the
\* page was rendered with one of `rendered` as agent_name (Null: without); or,
\* if `existing`, the page was rendered for the agent "A", which the backend
\* holds, and the template's timeout is pending.  The environment may produce
\* the events of `b` and lose `lost` requests.
InitConfig(b, lost, rendered, existing) ==
    /\ uploadedFiles = <<>>
    /\ originalAgentName = ""
    /\ originalAgentPersona = ""
    /\ originalFiles = <<>>
    /\ hasChanges = FALSE
    /\ statusInterval = 0
    /\ filesCurrentlyProcessing = FALSE
    /\ justFinishedProcessing = FALSE
    /\ agentNameInput = ""
    /\ agentPersonaInput = ""
    /\ updateButton = Button("Save", TRUE)
    /\ fileList = <<>>
    /\ page = "none"
    /\ cfgUploadedFiles = <<>>
    /\ currentAgentName = Null
    /\ processingStatusInterval = 0
    /\ processingComplete = FALSE
    /\ liveIntervals = 0
    /\ cfgAgentNameInput = UrlAgentName
    /\ cfgAgentPersonaInput = "P"
    /\ submitButton = Button("Create Agent", FALSE)
    /\ cfgFileList = <<>>
    /\ cfgPage = "open"
    /\ \/ /\ templateTimer \in rendered
          /\ srvName = Null
          /\ srvPersona = Null
          /\ srvFiles = NoFiles
       \/ /\ existing
          /\ templateTimer = UrlAgentName
          /\ srvName = UrlAgentName
          /\ srvPersona = "P"
          /\ \E st \in {"processing", "success"} :
                srvFiles = [f \in FileNames |-> IF f = "a.pdf" THEN st ELSE "absent"]
    /\ net = {}
    /\ lastOp = [op |-> "initConfig", files |-> <<>>]
    /\ alerts = <<>>
    /\ sentNow = <<>>
    /\ refetches = 0
    /\ budget = b
    /\ faults = lost

\* creating an agent on a page rendered without agent_name, or the page rendered
\* for the agent "A"
InitCreate ==
    InitConfig([edits |-> 0, adds |-> CreateAdds, removes |-> CreateRemoves,
                submits |-> CreateSubmits, agentDeletes |-> 0, ticks |-> CreateTicks],
               CreateFaults, {Null}, TRUE)

NextCreate ==
    \/ \E f \in CfgCandidates : CfgHandleFiles(<<f>>)
    \/ \E i \in 1..MaxRows : CfgRemoveClick(i)
    \/ CfgSubmit
    \/ CfgTick
    \/ TemplateStart
    \/ \E m \in net : CreateResponse(m)
    \/ \E m \in net : CfgUploadResponse(m)
    \/ \E m \in net : CfgStatusResponse(m)
    \/ \E m \in net : CfgDeleteFileResponse(m)
    \/ \E f \in FileNames : SrvProcess(f)

SpecCreate == InitCreate /\ [][NextCreate]_vars

\* creating an agent on a page rendered for the agent created before it
InitTemplate ==
    InitConfig([edits |-> 0, adds |-> TemplateAdds, removes |-> 0,
                submits |-> TemplateSubmits, agentDeletes |-> 0,
                ticks |-> TemplateTicks],
               TemplateFaults, {TemplateAgentName}, FALSE)

NextTemplate ==
    \/ \E f \in CfgCandidates : CfgHandleFiles(<<f>>)
    \/ CfgSubmit
    \/ CfgTick
    \/ TemplateStart
    \/ \E m \in net : CreateResponse(m)
    \/ \E m \in net : CfgUploadResponse(m)
    \/ \E m \in net : CfgStatusResponse(m)
    \/ \E f \in FileNames : SrvProcess(f)

SpecTemplate == InitTemplate /\ [][NextTemplate]_vars

-----------------------------------------------------------------------------
(* Properties: saving on the manage page *)

\* the step is the submit handler
SubmitStep == budget'.submits < budget.submits

\* the step is the catch of the submit chain
FailedStep == net' # net /\ lastOp'.op \in {"putFailed", "uploadFailed"}

\* the form holds something the backend does not have yet
Unsaved ==
    \/ agentNameInput # originalAgentName
    \/ agentPersonaInput # originalAgentPersona
    \/ filesChanged(uploadedFiles, originalFiles)

\* C1: a submit made while filesCurrentlyProcessing is true is rejected locally:
\* the user gets the wait notice, no request is issued (no PUT, no upload), and
\* the form fields, the staging set, the snapshot and the button are unchanged.
C1_SubmitRejectedWhileProcessing ==
    [][(SubmitStep /\ filesCurrentlyProcessing) =>
          /\ alerts' = <<WaitNotice>>
          /\ sentNow' = <<>>
          /\ net' = net
          /\ UNCHANGED svars
          /\ UNCHANGED <<agentNameInput, agentPersonaInput, uploadedFiles, fileList,
                         originalAgentName, originalAgentPersona, originalFiles,
                         hasChanges, updateButton, statusInterval,
                         filesCurrentlyProcessing, justFinishedProcessing, page>>]_vars

\* C1, its case: a submit was made while files were processing and got the notice
C1_Witness ==
    /\ lastOp.op = "submit"
    /\ alerts = <<WaitNotice>>
    /\ filesCurrentlyProcessing
    /\ page = "open"

\* C2: a submit that uploads new files starts or refreshes a processing session,
\* so that the button can return to "Save": while the page shows
\* "Processing Files..." the polling timer is live, or a response that can end
\* the session (status, re-fetch, or the upload itself) is on its way.
C2_UploadSessionCanEnd ==
    (page = "open" /\ updateButton.text = "Processing Files...") =>
        \/ statusInterval = 1
        \/ \E m \in net : m.kind \in {"status", "refetch", "upload"}

\* C4: after a failed write of a submit (the PUT, or the upload after the PUT),
\* a following submit with the pending changes still there is accepted: it does
\* not get the wait notice and it issues the PUT again.
C4_RetryAccepted ==
    [][(lastOp.op \in {"putFailed", "uploadFailed"} /\ hasChanges /\ SubmitStep) =>
          /\ alerts' # <<WaitNotice>>
          /\ \E i \in 1..Len(sentNow') : sentNow'[i].kind = "put"]_vars

C6_PlainSaveLeavesNothingProcessing ==
    lastOp.op = "putOkPlain" => ~filesCurrentlyProcessing

-----------------------------------------------------------------------------
(* Properties: polling on the manage page *)

\* C3: in one processing session (from the start of the monitor on) the agent
\* record is re-fetched at most once, in every interleaving of ticks, status
\* responses and the re-fetch response.
C3_OneRefetchPerSession == refetches <= 1

-----------------------------------------------------------------------------
(* Properties: the staging set of the manage page *)

\* the step is handleFiles, the step is the click on a remove icon
AddStep == budget'.adds < budget.adds
RemoveStep == budget'.removes < budget.removes

StagedNames(files) == {files[i].name : i \in 1..Len(files)}
ExistingNames(files) == {files[i].name : i \in {j \in 1..Len(files) : files[j].isExisting}}
NamesOf(files) == [i \in 1..Len(files) |-> files[i].name]

\* neither the MIME type nor the lower-cased name says PDF
NotPdf(f) ==
    /\ f.type # "application/pdf"
    /\ ~EndsWith(ToLowerCase(Chars(f.name)), <<".", "p", "d", "f">>)

\* C7: the staging set uploadedFiles never holds two entries of the same name.
C7_NoTwoEntriesOfOneName ==
    \A i, j \in 1..Len(uploadedFiles) :
        uploadedFiles[i].name = uploadedFiles[j].name => i = j

\* C7, its case: a batch named a file the loaded record already had and a new
\* one; the first was ignored and the second staged
C7_Witness ==
    /\ lastOp.op = "handleFiles"
    /\ \E i \in 1..Len(lastOp.files) : lastOp.files[i].name = "a.pdf"
    /\ "a.pdf" \in ExistingNames(uploadedFiles)
    /\ Len(uploadedFiles) = 2

\* C9: in a batch add, a file that is not a PDF by MIME type or by lower-cased
\* name is not staged, and no request is issued; the batch raises exactly one
\* notice, which lists every such file, and none if there is none; every other
\* file of the batch is staged, a new one as a File with a row of status ready.
C9_BatchAddRejections ==
    [][AddStep =>
          LET batch == lastOp'.files
              rejected == NamesOf(SelectSeq(batch, NotPdf))
          IN  /\ alerts' = IF rejected = <<>> THEN <<>> ELSE <<RejectedNotice(rejected)>>
              /\ sentNow' = <<>>
              /\ net' = net
              /\ UNCHANGED svars
              /\ Len(uploadedFiles') >= Len(uploadedFiles)
              /\ SubSeq(uploadedFiles', 1, Len(uploadedFiles)) = uploadedFiles
              /\ \A i \in 1..Len(batch) :
                    LET n == batch[i].name IN
                    IF NotPdf(batch[i])
                    THEN /\ n \in StagedNames(uploadedFiles') <=> n \in StagedNames(uploadedFiles)
                         /\ n \in StagedNames(fileList') <=> n \in StagedNames(fileList)
                    ELSE /\ n \in StagedNames(uploadedFiles')
                         /\ n \notin StagedNames(uploadedFiles) =>
                               /\ \E k \in 1..Len(uploadedFiles') :
                                     uploadedFiles'[k] = NewEntry(batch[i])
                               /\ \E k \in 1..Len(fileList') :
                                     /\ fileList'[k].name = n
                                     /\ fileList'[k].status = "ready"]_vars

\* C9, its case: a batch of a text file and an upper-case PDF without MIME type
C9_Witness ==
    /\ lastOp = [op |-> "handleFiles",
                 files |-> <<UserFile("c.txt", "text/plain"), UserFile("b.PDF", "")>>]
    /\ alerts = <<RejectedNotice(<<"c.txt">>)>>
    /\ "b.PDF" \in StagedNames(uploadedFiles)
    /\ "c.txt" \notin StagedNames(uploadedFiles)

\* C10: a click on the remove icon of an entry that is not existing removes
\* the entry and its row at once and issues no request; a click on the icon of
\* an existing entry issues one DELETE for the agent and that file and leaves
\* the entry; an existing entry leaves the staging set only in the handler of
\* the response to a DELETE for it.
C10_RemoveIssuesDeleteForExisting ==
    [][/\ RemoveStep =>
             LET n == lastOp'.files[1].name IN
             IF n \in ExistingNames(uploadedFiles)
             THEN /\ Len(sentNow') = 1
                  /\ sentNow' = <<DeleteFileRequest(originalAgentName, n, sentNow'[1].row)>>
                  /\ uploadedFiles' = uploadedFiles
                  /\ fileList' = fileList
             ELSE /\ sentNow' = <<>>
                  /\ net' = net
                  /\ UNCHANGED svars
                  /\ n \in StagedNames(uploadedFiles)
                  /\ n \notin StagedNames(uploadedFiles')
                  /\ n \notin StagedNames(fileList')
       /\ \A n \in ExistingNames(uploadedFiles) \ StagedNames(uploadedFiles') :
             \E m \in net \ net' : m.kind = "delfile" /\ n \in m.files]_vars

\* C10, its case: the click on an existing entry issued a DELETE that is still
\* on its way, with the entry still staged; the click on an entry the user had
\* added removed it at once, without a request
C10_Witness ==
    /\ lastOp.op = "remove"
    /\ sentNow = <<>>
    /\ budget.removes = 0
    /\ \E m \in InFlight("delfile") : m.files = {"a.pdf"}
    /\ NamesOf(uploadedFiles) = <<"a.pdf">>
    /\ uploadedFiles[1].isExisting

-----------------------------------------------------------------------------
(* Properties: the staging set of the create page *)

\* C8: the staging set of the create page never holds two entries of the same
\* name: adding a file whose name is already staged changes nothing, also when
\* the sizes differ.
C8_CreateNoTwoEntriesOfOneName ==
    \A i, j \in 1..Len(cfgUploadedFiles) :
        cfgUploadedFiles[i].name = cfgUploadedFiles[j].name => i = j

-----------------------------------------------------------------------------
(* Properties: failed deletions *)

\* the step handles the response to a file DELETE that did not succeed: the
\* request was lost, or the backend answered with an error
DeleteFailedStep == \E m \in net \ net' : m.kind = "delfile" /\ m.st # "ok"

\* C11: on the manage page, when the DELETE of an existing file fails (the
\* request is lost or the backend answers with an error), the entry stays in
\* uploadedFiles, its row stays in the list and the user gets an alert.
C11_FailedDeleteKeepsEntry ==
    [][(page = "open" /\ DeleteFailedStep) =>
          /\ uploadedFiles' = uploadedFiles
          /\ fileList' = fileList
          /\ alerts' # <<>>]_vars

\* the file of that name was never sent to the backend: the agent record does
\* not hold it and no upload carrying it is on its way
NeverUploaded(n) ==
    /\ srvName = Null \/ srvFiles[n] = "absent"
    /\ \A m \in InFlight("upload") : n \notin m.files

\* C12: on the create page, the click on the remove icon of a file that was
\* never uploaded issues no request, and the handler of a failed DELETE leaves
\* the entry in uploadedFiles.
C12_CreateRemoveWithoutRequest ==
    [][/\ (cfgPage = "open" /\ RemoveStep /\ NeverUploaded(lastOp'.files[1].name))
             => sentNow' = <<>>
       /\ (cfgPage = "open" /\ DeleteFailedStep)
             => cfgUploadedFiles' = cfgUploadedFiles]_vars

-----------------------------------------------------------------------------
(* Properties: change detection on the manage page *)

\* C13: once loadAgentData has succeeded, and until the user does anything,
\* hasChanges is false and the button reads "Save" and is disabled, whatever
\* the loaded record holds (a persona or none, a file in any status or none).
C13_LoadedFormHasNoChanges ==
    lastOp.op = "load" =>
        /\ ~hasChanges
        /\ updateButton = Button("Save", TRUE)

\* C13, its case: a record without persona and with one file was loaded
C13_Witness ==
    /\ lastOp.op = "load"
    /\ srvPersona = Null
    /\ agentPersonaInput = ""
    /\ Len(uploadedFiles) = 1
    /\ ~hasChanges

\* the step handles the successful response to the PUT of a save that has no
\* new file to upload, and the fields still hold what the PUT carried
SavedStep ==
    /\ page = "open"
    /\ newFiles(uploadedFiles) = {}
    /\ \E m \in net \ net' :
          /\ m.kind = "put" /\ m.st = "ok"
          /\ m.name = agentNameInput /\ m.persona = agentPersonaInput

\* C14: the handler of a successful save replaces the snapshot by the saved
\* form: the snapshot's name, persona and file names are those of the form, and
\* checkForChanges evaluated right after it finds no change, also when the
\* change saved was the removal of an existing file.
C14_SnapshotReplacedBySave ==
    [][SavedStep =>
          /\ originalAgentName' = agentNameInput'
          /\ originalAgentPersona' = agentPersonaInput'
          /\ StagedNames(originalFiles') = StagedNames(uploadedFiles')
          /\ ~checkForChanges(agentNameInput', agentPersonaInput', originalAgentName',
                              originalAgentPersona', uploadedFiles', originalFiles',
                              justFinishedProcessing').hasChanges]_vars

\* the form holds what the snapshot holds: the name, the persona, and the files
\* of the snapshot with nothing new among them
FormEqualsSnapshot ==
    /\ agentNameInput = originalAgentName
    /\ agentPersonaInput = originalAgentPersona
    /\ StagedNames(uploadedFiles) = StagedNames(originalFiles)
    /\ \A i \in 1..Len(uploadedFiles) : uploadedFiles[i].isExisting

\* the step is an edit of the user that took effect: a field got another value,
\* a file was added, or a file was removed (at the click, or when the response
\* to its DELETE arrived)
EditedStep ==
    /\ page = "open"
    /\ \/ budget'.edits < budget.edits
       \/ AddStep
       \/ RemoveStep
       \/ \E m \in net \ net' : m.kind = "delfile"
    /\ \/ agentNameInput' # agentNameInput
       \/ agentPersonaInput' # agentPersonaInput
       \/ StagedNames(uploadedFiles') # StagedNames(uploadedFiles)

\* C15: an edit made while the form equals the snapshot (another name, another
\* persona, one file added, one file removed) makes hasChanges true, and an
\* edit that brings the form back to the snapshot (the field restored, the
\* added file removed) makes hasChanges false.
C15_SingleEditDetected ==
    [][EditedStep =>
          /\ FormEqualsSnapshot => hasChanges'
          /\ FormEqualsSnapshot' => ~hasChanges']_vars

\* C15, its case: the file the user had added was removed again
C15_Witness ==
    /\ lastOp.op = "remove"
    /\ sentNow = <<>>
    /\ budget.adds = 0
    /\ InFlight("load") = {}
    /\ FormEqualsSnapshot
    /\ ~hasChanges
    /\ Len(uploadedFiles) = 1

-----------------------------------------------------------------------------
(* Properties: the end of a processing session on the manage page *)

\* C16: when the handler of the completion edge has run and the fields hold the
\* snapshot's name and persona, hasChanges is false; and a submit made right
\* after it navigates to the agent list and issues no request.
C16_CompletedFormHasNoChanges ==
    [][/\ (/\ lastOp'.op = "completed"
           /\ agentNameInput' = originalAgentName'
           /\ agentPersonaInput' = originalAgentPersona') => ~hasChanges'
       /\ (/\ lastOp.op = "completed"
           /\ agentNameInput = originalAgentName
           /\ agentPersonaInput = originalAgentPersona
           /\ ~filesCurrentlyProcessing
           /\ SubmitStep) => (sentNow' = <<>> /\ page' = "left")]_vars

\* C19: the button is never enabled while it reads "Saving..." or
\* "Processing Files...".
C19_BusyButtonDisabled ==
    updateButton.text \in {"Saving...", "Processing Files..."} => updateButton.disabled

\* C20: an entry becomes existing only when the record is loaded or when the
\* backend holds the file (an upload carried it): an entry the user added and
\* never uploaded is not tagged existing.
C20_ExistingOnlyIfUploaded ==
    [][\A n \in ExistingNames(uploadedFiles') \ ExistingNames(uploadedFiles) :
          \/ lastOp'.op = "load"
          \/ srvFiles[n] # "absent"]_vars

-----------------------------------------------------------------------------
(* Properties: the create flow *)

\* C17: in the create flow no processing-status GET is dispatched before the
\* upload POST: the task that dispatches the upload dispatches it ahead of any
\* status request.
C17_UploadBeforeStatus ==
    [][cfgPage = "open" =>
          \A i, j \in 1..Len(sentNow') :
              (sentNow'[i].kind = "status" /\ sentNow'[j].kind = "upload") => j < i]_vars

\* C18: when the create page has handled a status response with
\* processing_complete, the button is enabled and no interval is left running,
\* and while processingComplete stays set no task issues a status request,
\* however many times the monitor was started.
C18_NoPollingAfterCompletion ==
    [][cfgPage = "open" =>
          /\ (lastOp'.op = "cfgCompleted" /\ net' # net) =>
                (~submitButton'.disabled /\ liveIntervals' = 0)
          /\ (processingComplete /\ processingComplete') =>
                \A i \in 1..Len(sentNow') : sentNow'[i].kind # "status"]_vars

-----------------------------------------------------------------------------
(* Properties: what the completion edge marks *)

\* the names the record lists as processed
ProcessedNames(snap) ==
    {snap[k].name : k \in {j \in 1..Len(snap) : snap[j].status = "success"}}

\* C21: when the re-fetched record arrives at the completion edge, the entries
\* of uploadedFiles marked processed and existing are exactly those the record
\* returns as processed; an entry the record does not return, or returns as not
\* processed (a file in error), is not marked processed.
C21_MarkedAreReturnedProcessed ==
    [][\A m \in net \ net' :
          (page = "open" /\ m.kind = "refetch" /\ m.st = "ok") =>
              \A i \in 1..Len(uploadedFiles') :
                  (uploadedFiles'[i].processed /\ uploadedFiles'[i].isExisting)
                      <=> uploadedFiles'[i].name \in ProcessedNames(m.snap)]_vars

-----------------------------------------------------------------------------
(* Properties: the upload of a save *)

\* the names of the staged entries that are not existing
NotExistingNames(files) ==
    {files[i].name : i \in {j \in 1..Len(files) : ~files[j].isExisting}}

\* C22: the handler of a successful PUT, when entries that are not existing are
\* staged, issues exactly one request: the upload POST to the name the PUT
\* carried, with exactly those entries and no existing one; and it leaves the
\* row of each of them with the display status processing.
C22_OneUploadOfNewFiles ==
    [][\A m \in net \ net' :
          (/\ page = "open" /\ m.kind = "put" /\ m.st = "ok"
           /\ NotExistingNames(uploadedFiles) # {}) =>
              /\ sentNow' = <<UploadRequest(m.name, NotExistingNames(uploadedFiles))>>
              /\ NotExistingNames(uploadedFiles) \cap ExistingNames(uploadedFiles) = {}
              /\ \A n \in NotExistingNames(uploadedFiles) :
                    \E k \in 1..Len(fileList') :
                        fileList'[k].name = n /\ fileList'[k].status = "processing"]_vars

\* C22, its case: the agent was renamed in the save that uploaded a new file
\* next to an existing one; the upload went to the new name
C22_Witness ==
    /\ lastOp.op = "putOkUpload"
    /\ Len(sentNow) = 1
    /\ sentNow[1].kind = "upload"
    /\ sentNow[1].agent = "B"
    /\ srvName = "B"
    /\ ExistingNames(uploadedFiles) # {}
    /\ NotExistingNames(uploadedFiles) # {}

-----------------------------------------------------------------------------
(* Properties: failures and stale responses of the status monitor *)

\* C23: the handler of a failed processing-status request (lost, or answered
\* with an error) changes no display status, no flag, no snapshot, no staged
\* entry and no button state, shows no alert, issues no request and leaves the
\* polling timer as it was.
C23_FailedStatusIgnored ==
    [][\A m \in net \ net' :
          (page = "open" /\ m.kind = "status" /\ m.st # "ok") =>
              /\ UNCHANGED <<fileList, filesCurrentlyProcessing, justFinishedProcessing,
                             originalAgentName, originalAgentPersona, originalFiles,
                             uploadedFiles, hasChanges, updateButton, statusInterval,
                             agentNameInput, agentPersonaInput, page>>
              /\ alerts' = <<>>
              /\ sentNow' = <<>>]_vars

\* C23, its case: a status check failed while the timer ran, and the timer can
\* tick again
C23_Witness ==
    /\ lastOp.op = "statusFailed"
    /\ statusInterval = 1
    /\ budget.ticks > 0
    /\ page = "open"

\* the step handles a status response that reports no file pending or processing
IdleStatusStep(m) ==
    /\ page = "open"
    /\ m \in net \ net'
    /\ m.kind = "status" /\ m.st = "ok"
    /\ m.complete /\ ~anyProcessing(m.snap)

\* C24: while the polling timer runs, the handler of a status response that
\* reports no file pending or processing ends the session: it stops the timer,
\* or it issues the re-fetch whose handler stops it.  So does the session
\* started at page load for an agent whose files are all processed.
C24_IdleStatusEndsSession ==
    [][\A m \in net \ net' :
          (IdleStatusStep(m) /\ statusInterval = 1) =>
              \/ statusInterval' = 0
              \/ \E i \in 1..Len(sentNow') : sentNow'[i].kind = "refetch"]_vars

\* C27: while the button reads "Processing Files..." and the timer runs, with no
\* re-fetch on its way, a status response that reports no file pending or
\* processing leads to the re-fetch of the record: after a failed re-fetch the
\* completion is tried again.
C27_RefetchRetried ==
    [][\A m \in net \ net' :
          (/\ IdleStatusStep(m)
           /\ statusInterval = 1
           /\ updateButton.text = "Processing Files..."
           /\ InFlight("refetch") = {}) =>
              \E i \in 1..Len(sentNow') : sentNow'[i].kind = "refetch"]_vars

-----------------------------------------------------------------------------
(* Properties: the identifier used after a rename *)

\* the step handles the response m to a PUT
PutHandled(m) == page = "open" /\ m \in net \ net' /\ m.kind = "put"

\* C25: the identifier of the agent follows the renames and nothing else.  The
\* handler of a successful PUT makes the name it sent the identifier, the
\* handler of a failed PUT keeps the old one, the identifier changes in no step
\* but the handling of a successful PUT that renamed the agent, and every
\* request the page issues is addressed to the identifier.
C25_RequestsUseCurrentName ==
    [][/\ \A m \in net \ net' :
            /\ (PutHandled(m) /\ m.st = "ok") => originalAgentName' = m.name
            /\ (PutHandled(m) /\ m.st # "ok") => originalAgentName' = originalAgentName
       /\ (page = "open" /\ originalAgentName # "" /\ originalAgentName' # originalAgentName) =>
            \E m \in net \ net' : PutHandled(m) /\ m.st = "ok" /\ m.name # m.agent
       /\ (page = "open" /\ page' = "open") =>
            \A i \in 1..Len(sentNow') : sentNow'[i].agent = originalAgentName']_vars

-----------------------------------------------------------------------------
(* Properties: status updates for files that are not staged *)

\* names and ids of the rows, in order
RowKeys(rows) == [i \in 1..Len(rows) |-> <<rows[i].id, rows[i].name>>]

\* names of the staging entries, in order
EntryNames(files) == [i \in 1..Len(files) |-> files[i].name]

\* names a status response or a re-fetched record reports
ReportedNames(m) == {m.snap[k].name : k \in 1..Len(m.snap)}

\* C26: handling a status response or a re-fetched record creates no row and
\* no staging entry: a reported name without a row is skipped.  The handler
\* raises no alert, and a row whose name the response does not report keeps
\* its display status.
C26_UnknownNameIsNoOp ==
    [][\A m \in net \ net' :
          (page = "open" /\ m.kind \in {"status", "refetch"} /\ m.st = "ok") =>
              /\ RowKeys(fileList') = RowKeys(fileList)
              /\ EntryNames(uploadedFiles') = EntryNames(uploadedFiles)
              /\ alerts' = <<>>
              /\ \A i \in 1..Len(fileList) :
                    fileList[i].name \notin ReportedNames(m) => fileList'[i] = fileList[i]]_vars

\* the status request sent at page load named a file; the file was removed
\* before the response was handled
C26_Witness ==
    /\ lastOp.op = "status"
    /\ page = "open"
    /\ budget.adds = StagingAdds
    /\ budget.ticks = StagingTicks
    /\ budget.removes < StagingRemoves
    /\ uploadedFiles = <<>>
    /\ fileList = <<>>

-----------------------------------------------------------------------------
(* Properties: uploads of locally added files *)

\* C28: a locally added file is carried by at most one successful upload: no
\* upload is acknowledged for a file the backend already holds.
C28_UploadedAtMostOnce ==
    [][\A m \in net' \ net :
          (m.kind = "upload" /\ m.st = "ok") =>
              \A n \in m.files : srvFiles[n] = "absent"]_vars

-----------------------------------------------------------------------------
(* Properties: completion and confirmation on the create page *)

\* C29: on the create page, with files staged, completion is declared only
\* after the upload is acknowledged: not while no upload was sent yet or while
\* the upload is on its way.
C29_CompletionAfterUploadAck ==
    [][(/\ cfgPage = "open"
        /\ ~processingComplete /\ processingComplete'
        /\ StagedFileNames(cfgUploadedFiles) # {}) =>
            InFlight("upload") = {}]_vars

\* C30: a click on the button while it reads "Confirm Agent Creation" leaves
\* the page and sends nothing.
C30_ConfirmClickNavigates ==
    [][(/\ cfgPage = "open"
        /\ SubmitStep
        /\ submitButton.text = "Confirm Agent Creation") =>
            /\ cfgPage' = "left"
            /\ sentNow' = <<>>]_vars

====
